---- MODULE Spec2Model ----
(***************************************************************************)
(* A model of watts-plugin-tester (src/watts-plugin-tester.go).  The file  *)
(* holds two generations of the tool, each a package main of its own: the  *)
(* first (lines 1-180) keeps the plugin input in a typed struct, the       *)
(* second (lines 182-541) in a map of raw JSON values.  A behaviour is one *)
(* run of a build of one of the two: the command line is read, the plugin  *)
(* input is built from the compiled-in default and the override file, the  *)
(* plugin is started and its output is checked against the schema of the   *)
(* action.                                                                 *)
(*                                                                         *)
(* JSON values are tagged records.  A string is the sequence of its        *)
(* characters, so that serialisation, escaping and base64url encoding are  *)
(* computed byte by byte as the code computes them.                        *)
(***************************************************************************)
EXTENDS Integers, Sequences, FiniteSets, TLC

VARIABLES
    generation,          \* which package main of the file was built: 1 or 2
    command,             \* the sub-command kingpin parsed
    pluginTestAction,    \* *pluginTestAction, the --plugin-action flag
    pluginInputOverride, \* the --json file: [file |-> "none" | "unreadable" | "garbage" | "json", doc]
    validateFlag,        \* *validateDefault / *validateSpecific of the sub-command
    defaultPluginInput,  \* the package-level map key -> raw JSON value
    pc,                  \* position in main
    steps,               \* the steps of main taken so far, in order
    invocations,         \* how many times exec.Command(...).CombinedOutput() ran
    sentInput,           \* the document the plugin was started with (JNull: none)
    plugin,              \* what the plugin process did: [err, decodes, out] ("none" before it ran)
    validation,          \* path, errr of schemes[action].Validate(...) (done = FALSE: not called)
    output,              \* the Output map doPluginTest returned (empty: none)
    stdout,              \* the document printed by default / specific (JNull: none)
    exitCode             \* the exit status of the process (-1: still running)

vars == <<generation, command, pluginTestAction, pluginInputOverride,
          validateFlag, defaultPluginInput, pc, steps, invocations, sentInput,
          plugin, validation, output, stdout, exitCode>>

-----------------------------------------------------------------------------
(* JSON values: encoding/json's interface{} trees and json.RawMessage. *)

JNull == [kind |-> "null"]
JStr(chars) == [kind |-> "string", s |-> chars]
JNum(n) == [kind |-> "number", n |-> n]
JBool(b) == [kind |-> "bool", truth |-> b]
JArr(elems) == [kind |-> "array", list |-> elems]
JObj(fields) == [kind |-> "object", o |-> fields]

\* A json.RawMessage whose bytes are not JSON.
JInvalid(bytes) == [kind |-> "invalid", raw |-> bytes]

EmptyMap == [k \in {} |-> JNull]

IsObj(v) == v.kind = "object"
Has(v, k) == IsObj(v) /\ k \in DOMAIN v.o

\* m[k] of a Go map of pointers: the nil pointer when the key is absent.
MapIndex(m, k) == IF k \in DOMAIN m THEN m[k] ELSE JNull

-----------------------------------------------------------------------------
(* Bytes.  Ascii gives the byte of every character the model writes. *)

Ascii ==
    "a" :> 97 @@ "b" :> 98 @@ "c" :> 99 @@ "d" :> 100 @@ "e" :> 101 @@ "f" :> 102 @@
    "g" :> 103 @@ "h" :> 104 @@ "i" :> 105 @@ "j" :> 106 @@ "k" :> 107 @@ "l" :> 108 @@
    "m" :> 109 @@ "n" :> 110 @@ "o" :> 111 @@ "p" :> 112 @@ "q" :> 113 @@ "r" :> 114 @@
    "s" :> 115 @@ "t" :> 116 @@ "u" :> 117 @@ "v" :> 118 @@ "w" :> 119 @@ "x" :> 120 @@
    "y" :> 121 @@ "z" :> 122 @@
    "A" :> 65 @@ "B" :> 66 @@ "C" :> 67 @@ "D" :> 68 @@ "E" :> 69 @@ "F" :> 70 @@
    "G" :> 71 @@ "H" :> 72 @@ "I" :> 73 @@ "J" :> 74 @@ "K" :> 75 @@ "L" :> 76 @@
    "M" :> 77 @@ "N" :> 78 @@ "O" :> 79 @@ "P" :> 80 @@ "Q" :> 81 @@ "R" :> 82 @@
    "S" :> 83 @@ "T" :> 84 @@ "U" :> 85 @@ "V" :> 86 @@ "W" :> 87 @@ "X" :> 88 @@
    "Y" :> 89 @@ "Z" :> 90 @@
    "0" :> 48 @@ "1" :> 49 @@ "2" :> 50 @@ "3" :> 51 @@ "4" :> 52 @@ "5" :> 53 @@
    "6" :> 54 @@ "7" :> 55 @@ "8" :> 56 @@ "9" :> 57 @@
    "{" :> 123 @@ "}" :> 125 @@ "\"" :> 34 @@ ":" :> 58 @@ "," :> 44 @@ "\\" :> 92 @@
    "/" :> 47 @@ "." :> 46 @@ "-" :> 45 @@ "_" :> 95 @@ " " :> 32

\* The URL-safe base64 alphabet: the standard one with '-' and '_' as the
\* 62nd and 63rd characters.
UrlAlphabet ==
    << "A","B","C","D","E","F","G","H","I","J","K","L","M","N","O","P",
       "Q","R","S","T","U","V","W","X","Y","Z","a","b","c","d","e","f",
       "g","h","i","j","k","l","m","n","o","p","q","r","s","t","u","v",
       "w","x","y","z","0","1","2","3","4","5","6","7","8","9","-","_" >>

Sextet(alphabet, n) == alphabet[(n % 64) + 1]

\* base64 of a byte sequence without the trailing '=' padding: three bytes give
\* four characters, a rest of one byte two, a rest of two bytes three.
RECURSIVE Base64(_, _)
Base64(alphabet, bytes) ==
    IF Len(bytes) = 0 THEN << >>
    ELSE IF Len(bytes) = 1 THEN
        << Sextet(alphabet, bytes[1] \div 4), Sextet(alphabet, (bytes[1] % 4) * 16) >>
    ELSE IF Len(bytes) = 2 THEN
        << Sextet(alphabet, bytes[1] \div 4),
           Sextet(alphabet, (bytes[1] % 4) * 16 + bytes[2] \div 16),
           Sextet(alphabet, (bytes[2] % 16) * 4) >>
    ELSE
        << Sextet(alphabet, bytes[1] \div 4),
           Sextet(alphabet, (bytes[1] % 4) * 16 + bytes[2] \div 16),
           Sextet(alphabet, (bytes[2] % 16) * 4 + bytes[3] \div 64),
           Sextet(alphabet, bytes[3]) >>
        \o Base64(alphabet, SubSeq(bytes, 4, Len(bytes)))

Bytes(chars) == [i \in 1..Len(chars) |-> Ascii[chars[i]]]

\* base64.StdEncoding.EncodeToString: the standard alphabet, padded with '='
\* to a multiple of four characters.
StdAlphabet == [i \in 1..64 |-> IF i = 63 THEN "+" ELSE IF i = 64 THEN "/" ELSE UrlAlphabet[i]]
Base64StdEncode(chars) ==
    Base64(StdAlphabet, Bytes(chars)) \o
    (CASE Len(chars) % 3 = 1 -> << "=", "=" >>
       [] Len(chars) % 3 = 2 -> << "=" >>
       [] OTHER              -> << >>)

\* base64url.Encode of github.com/kalaspuffar/base64url: URL-safe, unpadded.
Base64UrlEncode(chars) == Base64(UrlAlphabet, Bytes(chars))

\* bytes.Replace(j, []byte{'/'}, []byte{'\\', '/'}, -1)
RECURSIVE EscapeSlashes(_)
EscapeSlashes(chars) ==
    IF Len(chars) = 0 THEN << >>
    ELSE (IF Head(chars) = "/" THEN << "\\", "/" >> ELSE << Head(chars) >>)
         \o EscapeSlashes(Tail(chars))

Digits == << "0","1","2","3","4","5","6","7","8","9" >>

\* The compact bytes json.Marshal writes for a scalar raw message; a nil
\* pointer is written as null.  Numbers of the model are single digits.
Compact(v) ==
    CASE v.kind = "string" -> << "\"" >> \o v.s \o << "\"" >>
      [] v.kind = "number" -> << Digits[v.n + 1] >>
      [] v.kind = "bool"   -> IF v.truth THEN << "t","r","u","e" >> ELSE << "f","a","l","s","e" >>
      [] OTHER             -> << "n","u","l","l" >>

\* json.Marshal of a map with the two keys k1 < k2 (maps are written with
\* their keys sorted).
MarshalPair(k1, v1, k2, v2) ==
    << "{", "\"" >> \o k1 \o << "\"", ":" >> \o Compact(v1) \o
    << ",", "\"" >> \o k2 \o << "\"", ":" >> \o Compact(v2) \o << "}" >>

-----------------------------------------------------------------------------
(* String literals of the program, as character sequences. *)

s_ok == << "o","k" >>
s_error == << "e","r","r","o","r" >>
s_undefined == << "u","n","d","e","f","i","n","e","d" >>
s_version == << "1",".","0",".","0" >>
s_versionFirst == << "1",".","0" >>
s_emptyObject == << "{","}" >>
userId == << "m","a","x","_","m","u","s","t","e","r","m","a","n","n" >>
s_familyName == << "M","u","s","t","e","r","m","a","n","n" >>
s_gender == << "M","a","l","e" >>
s_givenName == << "M","a","x" >>
s_name == << "M","a","x"," ","M","u","s","t","e","r","m","a","n","n" >>
s_issuer == << "h","t","t","p","s",":","/","/","i","s","s","u","e","r",".",
               "e","x","a","m","p","l","e",".","c","o","m" >>
s_subject == << "1","2","3","4","5","6","7","8","9" >>
s_iss == << "i","s","s" >>
s_sub == << "s","u","b" >>

\* The characters of an action name, for fmt.Sprintf("\"%s\"", *pluginTestAction).
ActionChars ==
    "parameter" :> << "p","a","r","a","m","e","t","e","r" >> @@
    "request"   :> << "r","e","q","u","e","s","t" >> @@
    "revoke"    :> << "r","e","v","o","k","e" >> @@
    "foo"       :> << "f","o","o" >> @@
    "a\"b"      :> << "a","\"","b" >>

HexDigits ==
    { "0","1","2","3","4","5","6","7","8","9",
      "a","b","c","d","e","f","A","B","C","D","E","F" }

\* The characters between the quotes of a JSON string: no bare double quote,
\* and a backslash only as the start of an escape.  (The model writes no
\* control characters.)
RECURSIVE IsStringBody(_)
IsStringBody(chars) ==
    IF Len(chars) = 0 THEN TRUE
    ELSE IF Head(chars) = "\"" THEN FALSE
    ELSE IF Head(chars) # "\\" THEN IsStringBody(Tail(chars))
    ELSE IF Len(chars) < 2 THEN FALSE
    ELSE IF chars[2] \in { "\"", "\\", "/", "b", "f", "n", "r", "t" }
    THEN IsStringBody(SubSeq(chars, 3, Len(chars)))
    ELSE /\ chars[2] = "u"
         /\ Len(chars) >= 6
         /\ \A i \in 3..6 : chars[i] \in HexDigits
         /\ IsStringBody(SubSeq(chars, 7, Len(chars)))

\* json.RawMessage(fmt.Sprintf("\"%s\"", chars)): the characters between two
\* quotes, which is a JSON string only when the characters are the body of
\* one.  (The s of a string value is the body as it stands in the bytes.)
QuotedRawMessage(chars) ==
    IF IsStringBody(chars) THEN JStr(chars)
    ELSE JInvalid(<< "\"" >> \o chars \o << "\"" >>)

\* The body json.Marshal writes for a Go string: a double quote and a
\* backslash are escaped with a backslash.
RECURSIVE EncodeString(_)
EncodeString(chars) ==
    IF Len(chars) = 0 THEN << >>
    ELSE (IF Head(chars) \in { "\"", "\\" } THEN << "\\", Head(chars) >>
          ELSE << Head(chars) >>)
         \o EncodeString(Tail(chars))

\* The characters of the object keys the model uses inside conf_params and
\* params, where the schema constrains the keys themselves.
KeyChars ==
    "good_key1" :> << "g","o","o","d","_","k","e","y","1" >> @@
    "Bad-Key"   :> << "B","a","d","-","K","e","y" >> @@
    "k"         :> << "k" >>

LowerDigitUnderscore ==
    { "a","b","c","d","e","f","g","h","i","j","k","l","m","n","o","p","q","r",
      "s","t","u","v","w","x","y","z","0","1","2","3","4","5","6","7","8","9","_" }

\* regexp.MatchString("^[a-z0-9_]+$", s)
MatchLowerIdent(chars) ==
    /\ Len(chars) >= 1
    /\ \A i \in 1..Len(chars) : chars[i] \in LowerDigitUnderscore

-----------------------------------------------------------------------------
(* The validators of github.com/gima/govalid/v1, as rule trees, and their   *)
(* Validate.  A result is [ok, path]; the path is the sequence of validator *)
(* names, keys and indices from the root to the first failure, empty on     *)
(* success.                                                                 *)

StrIs(chars) == [opt |-> "StrIs", s |-> chars]
StrRegExpLowerIdent == [opt |-> "StrRegExp"]
String(opts) == [rule |-> "String", opts |-> opts]
Boolean == [rule |-> "Boolean"]
ArrEach(v) == [rule |-> "Array", each |-> v]
ObjKV(key, v) == [opt |-> "KV", key |-> key, v |-> v]
ObjKeys(v) == [opt |-> "Keys", v |-> v]
Object(opts) == [rule |-> "Object", opts |-> opts]
Or(alts) == [rule |-> "Or", alts |-> alts]
Optional(v) == [rule |-> "Optional", v |-> v]

Pass == [ok |-> TRUE, path |-> << >>]
Fail(path) == [ok |-> FALSE, path |-> path]

Min(S) == CHOOSE x \in S : \A y \in S : x <= y

StrOptOK(o, chars) ==
    IF o.opt = "StrIs" THEN chars = o.s ELSE MatchLowerIdent(chars)

\* What Or reports when every alternative fails is not fixed by the program:
\* the govalid release the tool is built against decides whether the path
\* stops at the alternation or goes on into its first or its last alternative.
OrReports == { "alternation", "first", "last" }

RECURSIVE Validate(_, _, _)
Validate(r, v, orReport) ==
    CASE r.rule = "String" ->
            IF v.kind # "string" THEN Fail(<< "String" >>)
            ELSE IF \A i \in 1..Len(r.opts) : StrOptOK(r.opts[i], v.s) THEN Pass
            ELSE Fail(<< "String" >>)
      [] r.rule = "Boolean" ->
            IF v.kind = "bool" THEN Pass ELSE Fail(<< "Boolean" >>)
      [] r.rule = "Array" ->
            IF v.kind # "array" THEN Fail(<< "Array" >>)
            ELSE LET bad == { i \in 1..Len(v.list) : ~Validate(r.each, v.list[i], orReport).ok }
                 IN  IF bad = {} THEN Pass
                     ELSE Fail(<< "Array", "idx", Digits[Min(bad)] >>
                               \o Validate(r.each, v.list[Min(bad)], orReport).path)
      [] r.rule = "Object" ->
            IF v.kind # "object" THEN Fail(<< "Object" >>)
            ELSE LET optRes(o) ==
                        IF o.opt = "KV"
                        THEN LET res == Validate(o.v, MapIndex(v.o, o.key), orReport)
                             IN  IF res.ok THEN Pass
                                 ELSE Fail(<< "Key", o.key, "Value" >> \o res.path)
                        ELSE LET badKeys == { k \in DOMAIN v.o :
                                                ~Validate(o.v, JStr(KeyChars[k]), orReport).ok }
                             IN  IF badKeys = {} THEN Pass
                                 ELSE Fail(<< "Key", CHOOSE k \in badKeys : TRUE >>)
                     bad == { i \in 1..Len(r.opts) : ~optRes(r.opts[i]).ok }
                 IN  IF bad = {} THEN Pass
                     ELSE Fail(<< "Object" >> \o optRes(r.opts[Min(bad)]).path)
      [] r.rule = "Or" ->
            IF \E i \in 1..Len(r.alts) : Validate(r.alts[i], v, orReport).ok THEN Pass
            ELSE IF orReport = "alternation" \/ Len(r.alts) = 0 THEN Fail(<< "Or" >>)
            ELSE IF orReport = "first"
                 THEN Fail(<< "Or" >> \o Validate(r.alts[1], v, orReport).path)
                 ELSE Fail(<< "Or" >> \o Validate(r.alts[Len(r.alts)], v, orReport).path)
      [] r.rule = "Optional" ->
            IF v.kind = "null" THEN Pass ELSE Validate(r.v, v, orReport)

-----------------------------------------------------------------------------
(* The schemas of the program. *)

schemeAccessToken == Optional(String(<< >>))

schemeUserInfo ==
    Object(<< ObjKV("iss", String(<< >>)), ObjKV("sub", String(<< >>)) >>)

schemeAdditionalLogins ==
    ArrEach(Object(<< ObjKV("user_info", schemeUserInfo),
                      ObjKV("access_token", schemeAccessToken) >>))

schemeParams == Object(<< ObjKeys(String(<< StrRegExpLowerIdent >>)) >>)

pluginInputScheme ==
    Object(<< ObjKV("watts_version", String(<< >>)),
              ObjKV("watts_userid", String(<< >>)),
              ObjKV("cred_state", String(<< >>)),
              ObjKV("access_token", schemeAccessToken),
              ObjKV("additional_logins", schemeAdditionalLogins),
              ObjKV("conf_params", schemeParams),
              ObjKV("params", schemeParams),
              ObjKV("user_info", schemeUserInfo) >>)

errorResponse ==
    Object(<< ObjKV("result", String(<< StrIs(s_error) >>)),
              ObjKV("user_msg", String(<< >>)),
              ObjKV("log_msg", String(<< >>)) >>)

parameterScheme ==
    Object(<< ObjKV("result", String(<< StrIs(s_ok) >>)),
              ObjKV("conf_params", ArrEach(
                  Object(<< ObjKV("name", String(<< >>)),
                            ObjKV("type", String(<< >>)),
                            ObjKV("default", String(<< >>)) >>))),
              ObjKV("request_params", ArrEach(ArrEach(
                  Object(<< ObjKV("key", String(<< >>)),
                            ObjKV("name", String(<< >>)),
                            ObjKV("description", String(<< >>)),
                            ObjKV("type", String(<< >>)),
                            ObjKV("mandatory", Boolean) >>)))),
              ObjKV("version", String(<< >>)) >>)

requestScheme ==
    Or(<< Object(<< ObjKV("result", String(<< StrIs(s_ok) >>)),
                    ObjKV("credential", ArrEach(
                        Object(<< ObjKV("name", String(<< >>)),
                                  ObjKV("type", String(<< >>)),
                                  ObjKV("value", String(<< >>)) >>))),
                    ObjKV("state", String(<< >>)) >>),
          errorResponse >>)

revokeScheme ==
    Or(<< Object(<< ObjKV("result", String(<< StrIs(s_ok) >>)) >>),
          errorResponse >>)

\* The map schemes: only these three actions have an entry.
schemes ==
    "parameter" :> parameterScheme @@
    "request" :> requestScheme @@
    "revoke" :> revokeScheme

-----------------------------------------------------------------------------
(* The bounds of the model. *)

\* An override document sets at most this many keys.
MaxOverrideKeys == 2

\* The arrays conf_params and credential of a plugin response have at most
\* this many elements.
MaxArrLen == 2

-----------------------------------------------------------------------------
(* The inputs of a run: the command line, the override file, the plugin. *)

\* The two package main of the file.
Generations == { 1, 2 }

Commands == { "test", "default", "specific", "version" }
CommandsFirst == { "test", "default", "specific" }

\* --plugin-action is a free string flag; foo stands for the values that are
\* none of the three actions and can stand between two quotes as a JSON
\* string, a"b for those that cannot.
ActionFlags == { "parameter", "request", "revoke", "foo", "a\"b" }

s_x == << "x" >>
s_y == << "y" >>
s_slashed == << "a", "/", "b" >>
s_caller == << "c","a","l","l","e","r","-","i","d" >>
s_pluginName == << "p","l","u","g","i","n" >>

UserInfo(iss, sub) == JObj("iss" :> iss @@ "sub" :> sub)

\* The package-level defaultPluginInput as compiled in.
CompiledDefault ==
    "watts_version"     :> JStr(s_version) @@
    "cred_state"        :> JStr(s_undefined) @@
    "conf_params"       :> JObj(EmptyMap) @@
    "params"            :> JObj(EmptyMap) @@
    "user_info"         :> UserInfo(JStr(s_issuer), JStr(s_subject)) @@
    "additional_logins" :> JArr(<< >>)

\* The values an override document may give each key.  None is null: what a
\* null does in the merge depends on the mergo release the tool is built with.
OverrideOptions ==
    "watts_userid"      :> { JStr(s_caller) } @@
    "user_info"         :> { UserInfo(JStr(s_slashed), JStr(s_x)),
                             JObj("iss" :> JStr(s_slashed) @@ "sub" :> JStr(s_x)
                                  @@ "name" :> JStr(s_y)),
                             JObj("iss" :> JStr(s_slashed)),
                             UserInfo(JNum(7), JStr(s_x)),
                             JStr(s_x) } @@
    "params"            :> { JObj("good_key1" :> JStr(s_x)),
                             JObj("Bad-Key" :> JStr(s_x)) } @@
    "conf_params"       :> { JStr(s_x) } @@
    "additional_logins" :> { JArr(<< JObj("user_info" :> UserInfo(JStr(s_x), JStr(s_y))
                                          @@ "access_token" :> JStr(s_x)) >>),
                             JArr(<< JObj("access_token" :> JStr(s_x)) >>) } @@
    "action"            :> { JStr(ActionChars["revoke"]) } @@
    "watts_version"     :> { JNum(2) } @@
    "access_token"      :> { JStr(s_x), JNum(3) } @@
    "plugin_extra"      :> { JBool(TRUE) }

\* Every map that gives at most n of the keys a value of its options.
RECURSIVE Documents(_, _, _)
Documents(options, keys, n) ==
    IF keys = {} \/ n = 0 THEN { EmptyMap }
    ELSE LET k == CHOOSE x \in keys : TRUE
             rest == Documents(options, keys \ {k}, n)
             fewer == Documents(options, keys \ {k}, n - 1)
         IN  rest \cup { (k :> v) @@ d : v \in options[k], d \in fewer }

OverrideDocuments == Documents(OverrideOptions, DOMAIN OverrideOptions, MaxOverrideKeys)

\* The --json file: not given, unreadable, not JSON, JSON that is no object
\* (null, an array, a string), or an object.
OverrideFiles ==
    { [file |-> "none", doc |-> JNull],
      [file |-> "unreadable", doc |-> JNull],
      [file |-> "garbage", doc |-> JNull],
      [file |-> "json", doc |-> JNull],
      [file |-> "json", doc |-> JArr(<< >>)],
      [file |-> "json", doc |-> JStr(s_x)] }
    \cup { [file |-> "json", doc |-> JObj(d)] : d \in OverrideDocuments }

\* The values an override document of a first-generation run may give each
\* key: values that fit the field of the struct the key names, values of a
\* wrong kind, and a key that names no field.
OverrideOptionsFirst ==
    "watts_userid" :> { JStr(s_caller) } @@
    "user_info"    :> { JObj("iss" :> JStr(s_slashed)),
                        UserInfo(JNum(7), JStr(s_x)) } @@
    "params"       :> { JStr(s_x), JObj("good_key1" :> JStr(s_x)) } @@
    "action"       :> { JStr(ActionChars["revoke"]) } @@
    "plugin_extra" :> { JBool(TRUE) }

OverrideFilesFirst ==
    { [file |-> "none", doc |-> JNull],
      [file |-> "unreadable", doc |-> JNull],
      [file |-> "garbage", doc |-> JNull],
      [file |-> "json", doc |-> JNull],
      [file |-> "json", doc |-> JArr(<< >>)] }
    \cup { [file |-> "json", doc |-> JObj(d)] :
             d \in Documents(OverrideOptionsFirst, DOMAIN OverrideOptionsFirst,
                             MaxOverrideKeys) }

goodConf == JObj("name" :> JStr(s_x) @@ "type" :> JStr(s_x) @@ "default" :> JStr(s_x))
badConf == JObj("name" :> JStr(s_x) @@ "type" :> JStr(s_x))
goodReq == JObj("key" :> JStr(s_x) @@ "name" :> JStr(s_x) @@ "description" :> JStr(s_x)
                @@ "type" :> JStr(s_x) @@ "mandatory" :> JBool(TRUE))
badReq == JObj("key" :> JStr(s_x) @@ "name" :> JStr(s_x) @@ "description" :> JStr(s_x)
               @@ "type" :> JStr(s_x) @@ "mandatory" :> JStr(s_x))
goodCred == JObj("name" :> JStr(s_x) @@ "type" :> JStr(s_x) @@ "value" :> JStr(s_x))
badCred == JObj("name" :> JStr(s_x) @@ "type" :> JStr(s_x) @@ "value" :> JNum(1))

\* The sequences over S of length at most n.
SeqsUpTo(S, n) == { << >> } \cup UNION { [1..m -> S] : m \in 1..n }

ParameterResponse(result, confParams, requestParams, version) ==
    "result" :> result @@ "conf_params" :> confParams @@
    "request_params" :> requestParams @@ "version" :> version

RequestResponse(result, credential, state) ==
    "result" :> result @@ "credential" :> credential @@ "state" :> state

ErrorResponse(result, userMsg, logMsg) ==
    "result" :> result @@ "user_msg" :> userMsg @@ "log_msg" :> logMsg

\* Full responses whose arrays hold up to MaxArrLen good and bad elements.
ArrayResponses ==
    { ParameterResponse(JStr(s_ok), JArr(cp), JArr(<< >>), JStr(s_version)) :
        cp \in SeqsUpTo({ goodConf, badConf }, MaxArrLen) }
    \cup { RequestResponse(JStr(s_ok), JArr(cr), JStr(s_x)) :
        cr \in SeqsUpTo({ goodCred, badCred }, MaxArrLen) }

\* Full responses of each form, good ones and ones with a field of a wrong kind.
FullResponses ==
    { ParameterResponse(JStr(s_ok), JArr(<< >>), JArr(<< JArr(rp) >>), JStr(s_version)) :
        rp \in { << >>, << goodReq >>, << badReq >>, << goodReq, badReq >> } }
    \cup { ParameterResponse(JStr(s_ok), JArr(<< goodConf >>), JArr(<< >>), JStr(s_version)),
           ParameterResponse(JStr(s_error), JArr(<< >>), JArr(<< >>), JStr(s_version)),
           ParameterResponse(JNum(1), JArr(<< >>), JArr(<< >>), JStr(s_version)),
           ParameterResponse(JStr(s_ok), JStr(s_x), JArr(<< >>), JStr(s_version)),
           ParameterResponse(JStr(s_ok), JArr(<< >>), JArr(<< goodReq >>), JStr(s_version)),
           ParameterResponse(JStr(s_ok), JArr(<< >>), JArr(<< >>), JNum(1)),
           RequestResponse(JStr(s_ok), JArr(<< goodCred >>), JStr(s_x)),
           RequestResponse(JStr(s_ok), JStr(s_x), JStr(s_x)),
           RequestResponse(JStr(s_ok), JArr(<< >>), JNum(1)),
           ErrorResponse(JStr(s_error), JStr(s_x), JStr(s_y)),
           ErrorResponse(JStr(s_error), JNum(1), JStr(s_y)),
           ErrorResponse(JStr(s_error), JStr(s_x), JBool(FALSE)),
           ErrorResponse(JStr(s_ok), JStr(s_x), JStr(s_y)) }

Restrict(f, S) == [k \in S |-> f[k]]

\* The objects a plugin may print: a full response with any of its fields
\* left out, and the responses with longer arrays.
ResponseObjects ==
    ArrayResponses
    \cup UNION { { Restrict(d, S) : S \in SUBSET DOMAIN d } : d \in FullResponses }

\* What the plugin process does: it fails (spawn failure or non-zero exit),
\* or exits with zero and prints bytes that do not decode as JSON, or JSON.
PluginBehaviours ==
    { [ran |-> TRUE, err |-> TRUE, decodes |-> FALSE, out |-> JNull],
      [ran |-> TRUE, err |-> FALSE, decodes |-> FALSE, out |-> JNull],
      [ran |-> TRUE, err |-> FALSE, decodes |-> TRUE, out |-> JNull],
      [ran |-> TRUE, err |-> FALSE, decodes |-> TRUE, out |-> JArr(<< >>)],
      [ran |-> TRUE, err |-> FALSE, decodes |-> TRUE, out |-> JStr(s_ok)] }
    \cup { [ran |-> TRUE, err |-> FALSE, decodes |-> TRUE, out |-> JObj(d)] :
             d \in ResponseObjects }

NotRun == [ran |-> FALSE, err |-> FALSE, decodes |-> FALSE, out |-> JNull]

-----------------------------------------------------------------------------
(* The functions of the program. *)

\* mergo.Merge(&dst, &src) on two maps: every key of src that dst does not
\* have is set in dst to src's element; a key dst has keeps dst's element.
RECURSIVE MergeKeys(_, _, _)
MergeKeys(dst, src, keys) ==
    IF keys = {} THEN dst
    ELSE LET k == CHOOSE x \in keys : TRUE
         IN  MergeKeys(IF k \in DOMAIN dst THEN dst ELSE (k :> src[k]) @@ dst,
                       src, keys \ {k})

mergoMerge(dst, src) == MergeKeys(dst, src, DOMAIN src)

\* json.Unmarshal(overrideBytes, &overridePluginInput) returns no error: the
\* file holds a JSON object, or null, which sets the map to nil.
UnmarshalsAsMap(f) == f.file = "json" /\ f.doc.kind \in { "object", "null" }

\* What mergo.Merge does with a nil destination map depends on the release of
\* github.com/imdario/mergo the tool is built with: the first key set panics
\* (assignment to entry in nil map), or the map is allocated first.
MergoReleases == { "panics", "allocates" }

\* specifyPluginInput: [exit, input].  exit is 0 when the function returns, 1
\* at an os.Exit(1), 2 when the process panics.
specifyPluginInput(p, f, mergo) ==
    IF f.file = "none" THEN [exit |-> 0, input |-> p]
    ELSE IF f.file = "unreadable" THEN [exit |-> 1, input |-> p]
    ELSE IF ~UnmarshalsAsMap(f) THEN [exit |-> 1, input |-> p]
    ELSE IF f.doc.kind = "null"
    THEN IF mergo = "panics" /\ DOMAIN p # {} THEN [exit |-> 2, input |-> p]
         ELSE [exit |-> 0, input |-> mergoMerge(EmptyMap, p)]
    ELSE [exit |-> 0, input |-> mergoMerge(f.doc.o, p)]

\* The string generateUserID stores as watts_userid, from the raw iss and sub
\* of user_info.
encodeUserID(iss, sub) ==
    Base64UrlEncode(EscapeSlashes(MarshalPair(s_iss, iss, s_sub, sub)))

\* generateUserID: [exit, input].
generateUserID(p) ==
    LET userInfo == p["user_info"]
    IN  IF userInfo.kind # "object" THEN [exit |-> 1, input |-> p]
        ELSE [exit |-> 0,
              input |-> [k \in DOMAIN p \cup { "watts_userid" } |->
                           IF k = "watts_userid"
                           THEN JStr(encodeUserID(MapIndex(userInfo.o, "iss"),
                                                  MapIndex(userInfo.o, "sub")))
                           ELSE p[k]]]

\* defaultPluginInput["action"] = &defaultAction in main
stampAction(p, action) ==
    [k \in DOMAIN p \cup { "action" } |->
        IF k = "action" THEN QuotedRawMessage(ActionChars[action]) ELSE p[k]]

\* json.MarshalIndent of the map returns no error: every raw message in it
\* is JSON.
Marshals(p) == \A k \in DOMAIN p : p[k].kind # "invalid"

\* marshalPluginInput: the exit status, 1 when the map does not marshal.
marshalPluginInput(p) == IF Marshals(p) THEN 0 ELSE 1

\* validate: the exit status, 1 when the input does not marshal, else 0 when
\* it passes pluginInputScheme (the scheme has no Or, so the result is the
\* same under every OrReports).
validate(p) ==
    IF ~Marshals(p) THEN 1
    ELSE IF \A m \in OrReports : Validate(pluginInputScheme, JObj(p), m).ok THEN 0
    ELSE 1

\* What json.Unmarshal(out, &pluginOutputJson) leaves in pluginOutputJson:
\* nil when the bytes do not decode (the error is dropped).
decodedOutput(b) == IF b.decodes THEN b.out ELSE JNull

Printed(chars) == JStr(chars)
Description(msg, path) == [kind |-> "string", msg |-> msg, path |-> path]

\* A doPluginTest that does not return after a validation error, so that the
\* result and the description of the success case replace those of the error.
doPluginTest_NoReturnOnValidationError(pluginName, action, input, b, orReport) ==
    LET head == "plugin_name" :> Printed(pluginName) @@
                "action" :> Printed(ActionChars[action]) @@
                "input" :> JObj(input)
    IN  IF b.err
        THEN [panic |-> FALSE,
              report |-> head @@ "result" :> Printed(s_error) @@
                         "description" :> Description("error executing the plugin", << >>)]
        ELSE IF action \notin DOMAIN schemes
        THEN [panic |-> TRUE, report |-> EmptyMap]
        ELSE [panic |-> FALSE,
              report |-> head @@ "output" :> decodedOutput(b) @@
                         "result" :> Printed(s_ok) @@
                         "description" :> Description("validation passed", << >>)]

\* doPluginTest: [panic, report].  schemes[action] of an action without an
\* entry is the nil Validator, and calling Validate on it panics.
doPluginTest(pluginName, action, input, b, orReport) ==
    LET head == "plugin_name" :> Printed(pluginName) @@
                "action" :> Printed(ActionChars[action]) @@
                "input" :> JObj(input)
        withOutput == head @@ "output" :> decodedOutput(b)
    IN  IF b.err
        THEN [panic |-> FALSE,
              report |-> head @@ "result" :> Printed(s_error) @@
                         "description" :> Description("error executing the plugin", << >>)]
        ELSE IF action \notin DOMAIN schemes
        THEN [panic |-> TRUE, report |-> EmptyMap]
        ELSE LET res == Validate(schemes[action], decodedOutput(b), orReport)
             IN  IF ~res.ok
                 THEN [panic |-> FALSE,
                       report |-> withOutput @@ "result" :> Printed(s_error) @@
                                  "description" :> Description("Validation error", res.path)]
                 ELSE [panic |-> FALSE,
                       report |-> withOutput @@ "result" :> Printed(s_ok) @@
                                  "description" :> Description("validation passed", << >>)]

-----------------------------------------------------------------------------
(* The functions of the first generation, whose plugin input is the struct  *)
(* PluginInput.  A struct value is written as the object json.Marshal makes *)
(* of it: every field is there, an unset one with its zero value.           *)

StringFields ==
    { "watts_version", "action", "conf_params", "params", "cred_state", "watts_userid" }
UserInfoFields == { "family_name", "gender", "given_name", "iss", "name", "sub" }

EmptyString == JStr(<< >>)

\* var overrideJson PluginInput
ZeroPluginInput ==
    [k \in StringFields \cup { "user_info" } |->
        IF k = "user_info" THEN JObj([j \in UserInfoFields |-> EmptyString])
        ELSE EmptyString]

defaultPluginInputTemplate ==
    "watts_version" :> JStr(s_versionFirst) @@
    "action"        :> EmptyString @@
    "conf_params"   :> JStr(s_emptyObject) @@
    "params"        :> JStr(s_emptyObject) @@
    "cred_state"    :> JStr(s_undefined) @@
    "user_info"     :> JObj("family_name" :> JStr(s_familyName) @@
                            "gender"      :> JStr(s_gender) @@
                            "given_name"  :> JStr(s_givenName) @@
                            "iss"         :> JStr(s_issuer) @@
                            "name"        :> JStr(s_name) @@
                            "sub"         :> JStr(s_subject)) @@
    "watts_userid"  :> EmptyString

\* defaultPluginInput(): the template with the action flag and the encoded
\* userId.
defaultPluginInputStruct(action) ==
    [defaultPluginInputTemplate EXCEPT
        !["action"] = JStr(EncodeString(ActionChars[action])),
        !["watts_userid"] = JStr(Base64StdEncode(userId))]

defaultJson(action) == JObj(defaultPluginInputStruct(action))

\* A JSON value json.Unmarshal stores in a string field without an error: a
\* string, or null, which leaves the field as it is.
FitsString(v) == v.kind \in { "string", "null" }

FitsUserInfo(v) ==
    \/ v.kind = "null"
    \/ /\ v.kind = "object"
       /\ \A k \in DOMAIN v.o \cap UserInfoFields : FitsString(v.o[k])

\* json.Unmarshal(inputOverride, &overrideJson) returns no error: the file
\* holds null, or an object whose values fit the fields they name (keys that
\* name no field are skipped).
UnmarshalsAsStruct(f) ==
    /\ f.file = "json"
    /\ \/ f.doc.kind = "null"
       \/ /\ f.doc.kind = "object"
          /\ \A k \in DOMAIN f.doc.o \cap StringFields : FitsString(f.doc.o[k])
          /\ "user_info" \in DOMAIN f.doc.o => FitsUserInfo(f.doc.o["user_info"])

StringField(o, k) ==
    IF k \in DOMAIN o /\ o[k].kind = "string" THEN o[k] ELSE EmptyString

\* overrideJson after a json.Unmarshal that returned no error.
unmarshalStruct(doc) ==
    IF doc.kind = "null" THEN ZeroPluginInput
    ELSE [k \in DOMAIN ZeroPluginInput |->
            IF k # "user_info" THEN StringField(doc.o, k)
            ELSE IF Has(doc, k) /\ IsObj(doc.o[k])
            THEN JObj([j \in UserInfoFields |-> StringField(doc.o[k].o, j)])
            ELSE ZeroPluginInput[k]]

\* mergo.Merge(&overrideJson, defaultJson()): the source is a []byte and the
\* destination a struct, so Merge returns an error, which the caller drops,
\* and leaves the destination as it was.
mergoMergeBytes(dst, src) == dst

\* specificJson: the JSON the first generation prints and sends.
specificJson(action, f) ==
    IF f.file = "none" \/ f.file = "unreadable" THEN defaultJson(action)
    ELSE IF ~UnmarshalsAsStruct(f) THEN defaultJson(action)
    ELSE JObj(mergoMergeBytes(unmarshalStruct(f.doc), defaultJson(action)))

\* The map schemes of the first generation: parameter and request.
schemesFirst == "parameter" :> parameterScheme @@ "request" :> requestScheme

NotValidated == [done |-> FALSE, ok |-> FALSE, path |-> << >>]
Validated(res) == [done |-> TRUE, ok |-> res.ok, path |-> res.path]

\* doPluginTestAction after the plugin ran as b: [panic, validation].
doPluginTestAction(action, b, orReport) ==
    IF b.err THEN [panic |-> FALSE, validation |-> NotValidated]
    ELSE IF action \notin DOMAIN schemesFirst
    THEN [panic |-> TRUE, validation |-> NotValidated]
    ELSE [panic |-> FALSE,
          validation |-> Validated(Validate(schemesFirst[action], decodedOutput(b), orReport))]

-----------------------------------------------------------------------------
(* main, one action per statement of the command's case. *)

\* The case of the first generation's main the command selects.
FirstMain(cmd) ==
    CASE cmd = "test"     -> "test1"
      [] cmd = "specific" -> "specific1"
      [] OTHER            -> "default1"

\* Where main goes after a step, by command.
AfterStart(cmd, flag) ==
    CASE cmd = "test"     -> "specify"
      [] cmd = "specific" -> "specify"
      [] cmd = "default"  -> IF flag THEN "validate" ELSE "print"
      [] OTHER            -> "version"

AfterSpecify(cmd) == IF cmd = "test" THEN "action" ELSE "userid"

AfterUserID(cmd, flag) ==
    IF cmd = "test" \/ flag THEN "validate" ELSE "print"

AfterValidate(cmd) == IF cmd = "test" THEN "test" ELSE "print"

Init ==
    /\ generation \in Generations
    /\ command \in (IF generation = 1 THEN CommandsFirst ELSE Commands)
    /\ pluginTestAction \in ActionFlags
    /\ pluginInputOverride \in (IF generation = 1 THEN OverrideFilesFirst ELSE OverrideFiles)
    /\ validateFlag \in (IF generation = 2 /\ command \in { "default", "specific" }
                         THEN BOOLEAN ELSE { FALSE })
    /\ defaultPluginInput = CompiledDefault
    /\ pc = (IF generation = 1 THEN FirstMain(command)
             ELSE AfterStart(command, validateFlag))
    /\ validation = NotValidated
    /\ steps = << >>
    /\ invocations = 0
    /\ sentInput = JNull
    /\ plugin = NotRun
    /\ output = EmptyMap
    /\ stdout = JNull
    /\ exitCode = -1

Inputs == <<generation, command, pluginTestAction, pluginInputOverride, validateFlag>>
PluginSide == <<invocations, sentInput, plugin, validation, output>>

\* The step returns (exit = 0) and main goes on at next, or it calls os.Exit.
Continue(step, exit, next) ==
    /\ steps' = Append(steps, step)
    /\ pc' = IF exit = 0 THEN next ELSE "exited"
    /\ exitCode' = IF exit = 0 THEN exitCode ELSE exit

SpecifyPluginInput ==
    /\ pc = "specify"
    /\ \E mergo \in MergoReleases :
          LET r == specifyPluginInput(defaultPluginInput, pluginInputOverride, mergo)
          IN  /\ defaultPluginInput' = r.input
              /\ Continue("merge", r.exit, AfterSpecify(command))
    /\ UNCHANGED <<Inputs, PluginSide, stdout>>

StampAction ==
    /\ pc = "action"
    /\ defaultPluginInput' = stampAction(defaultPluginInput, pluginTestAction)
    /\ Continue("action", 0, "userid")
    /\ UNCHANGED <<Inputs, PluginSide, stdout>>

GenerateUserID ==
    /\ pc = "userid"
    /\ LET r == generateUserID(defaultPluginInput)
       IN  /\ defaultPluginInput' = r.input
           /\ Continue("identity", r.exit, AfterUserID(command, validateFlag))
    /\ UNCHANGED <<Inputs, PluginSide, stdout>>

ValidateInput ==
    /\ pc = "validate"
    /\ Continue("validate", validate(defaultPluginInput), AfterValidate(command))
    /\ UNCHANGED <<Inputs, PluginSide, stdout, defaultPluginInput>>

\* marshalPluginInput and doPluginTest: an input that does not marshal ends
\* the process with os.Exit(1); else the plugin is started with the marshalled
\* input and behaves as b; a panic ends the process with status 2.
DoPluginTest ==
    /\ pc = "test"
    /\ IF marshalPluginInput(defaultPluginInput) # 0
       THEN /\ pc' = "exited"
            /\ exitCode' = marshalPluginInput(defaultPluginInput)
            /\ UNCHANGED <<PluginSide, steps>>
       ELSE \E b \in PluginBehaviours, m \in OrReports :
              LET r == doPluginTest(s_pluginName, pluginTestAction, defaultPluginInput, b, m)
              IN  /\ plugin' = b
                  /\ invocations' = invocations + 1
                  /\ sentInput' = JObj(defaultPluginInput)
                  /\ validation' =
                        (IF b.err \/ pluginTestAction \notin DOMAIN schemes THEN NotValidated
                         ELSE Validated(Validate(schemes[pluginTestAction], decodedOutput(b), m)))
                  /\ output' = r.report
                  /\ steps' = steps \o (IF b.err THEN << "invoke" >>
                                        ELSE << "invoke", "check" >>)
                  /\ pc' = IF r.panic THEN "exited" ELSE "report"
                  /\ exitCode' = IF r.panic THEN 2 ELSE exitCode
    /\ UNCHANGED <<Inputs, stdout, defaultPluginInput>>

\* printOutput, and main returns.
PrintOutput ==
    /\ pc = "report"
    /\ steps' = Append(steps, "report")
    /\ pc' = "exited"
    /\ exitCode' = 0
    /\ UNCHANGED <<Inputs, PluginSide, stdout, defaultPluginInput>>

\* fmt.Printf("%s", defaultPluginInput.marshalPluginInput()) of default and
\* specific, and main returns; an input that does not marshal ends the process
\* with os.Exit(1) instead.
PrintInput ==
    /\ pc = "print"
    /\ IF marshalPluginInput(defaultPluginInput) # 0
       THEN /\ exitCode' = marshalPluginInput(defaultPluginInput)
            /\ UNCHANGED <<stdout, steps>>
       ELSE /\ stdout' = JObj(defaultPluginInput)
            /\ steps' = Append(steps, "print")
            /\ exitCode' = 0
    /\ pc' = "exited"
    /\ UNCHANGED <<Inputs, PluginSide, defaultPluginInput>>

PrintVersion ==
    /\ pc = "version"
    /\ steps' = Append(steps, "version")
    /\ pc' = "exited"
    /\ exitCode' = 0
    /\ UNCHANGED <<Inputs, PluginSide, stdout, defaultPluginInput>>

\* The test case of the first generation's main: doPluginTestAction builds
\* the input with specificJson, starts the plugin, which behaves as b, and
\* checks and prints what it wrote; main returns, or the process panics.
DoPluginTestAction ==
    /\ pc = "test1"
    /\ \E b \in PluginBehaviours, m \in OrReports :
          LET r == doPluginTestAction(pluginTestAction, b, m)
          IN  /\ plugin' = b
              /\ invocations' = invocations + 1
              /\ sentInput' = specificJson(pluginTestAction, pluginInputOverride)
              /\ validation' = r.validation
              /\ steps' = steps \o (IF b.err THEN << "merge", "invoke" >>
                                    ELSE << "merge", "invoke", "check" >>)
              /\ pc' = "exited"
              /\ exitCode' = IF r.panic THEN 2 ELSE 0
    /\ UNCHANGED <<Inputs, output, stdout, defaultPluginInput>>

\* fmt.Printf("%s", string(defaultJson())), and main returns.
PrintDefaultJson ==
    /\ pc = "default1"
    /\ stdout' = defaultJson(pluginTestAction)
    /\ steps' = Append(steps, "print")
    /\ pc' = "exited"
    /\ exitCode' = 0
    /\ UNCHANGED <<Inputs, PluginSide, defaultPluginInput>>

\* fmt.Printf("%s", string(specificJson())), and main returns.
PrintSpecificJson ==
    /\ pc = "specific1"
    /\ stdout' = specificJson(pluginTestAction, pluginInputOverride)
    /\ steps' = << "merge", "print" >>
    /\ pc' = "exited"
    /\ exitCode' = 0
    /\ UNCHANGED <<Inputs, PluginSide, defaultPluginInput>>

Next ==
    \/ DoPluginTestAction
    \/ PrintDefaultJson
    \/ PrintSpecificJson
    \/ SpecifyPluginInput
    \/ StampAction
    \/ GenerateUserID
    \/ ValidateInput
    \/ DoPluginTest
    \/ PrintOutput
    \/ PrintInput
    \/ PrintVersion

Spec == Init /\ [][Next]_vars

-----------------------------------------------------------------------------
(* What the claims speak of, stated on the documents themselves. *)

SupportedActions == { "parameter", "request", "revoke" }

Field(v, k) == IF Has(v, k) THEN v.o[k] ELSE JNull
IsStr(v) == v.kind = "string"
IsArrayOf(v, P(_)) == v.kind = "array" /\ \A i \in 1..Len(v.list) : P(v.list[i])
StrFields(v, keys) == IsObj(v) /\ \A k \in keys : IsStr(Field(v, k))

IsConfParam(v) == StrFields(v, { "name", "type", "default" })
IsRequestParam(v) ==
    /\ StrFields(v, { "key", "name", "description", "type" })
    /\ Field(v, "mandatory").kind = "bool"
IsRequestParamSet(v) == IsArrayOf(v, IsRequestParam)
IsCredential(v) == StrFields(v, { "name", "type", "value" })

IsErrorResponse(v) ==
    /\ Field(v, "result") = JStr(s_error)
    /\ StrFields(v, { "user_msg", "log_msg" })

\* The response has every field the action requires, of the required kind.
Conforms(action, v) ==
    /\ IsObj(v)
    /\ CASE action = "parameter" ->
                /\ Field(v, "result") = JStr(s_ok)
                /\ IsArrayOf(Field(v, "conf_params"), IsConfParam)
                /\ IsArrayOf(Field(v, "request_params"), IsRequestParamSet)
                /\ IsStr(Field(v, "version"))
         [] action = "request" ->
                \/ /\ Field(v, "result") = JStr(s_ok)
                   /\ IsArrayOf(Field(v, "credential"), IsCredential)
                   /\ IsStr(Field(v, "state"))
                \/ IsErrorResponse(v)
         [] action = "revoke" ->
                \/ Field(v, "result") = JStr(s_ok)
                \/ IsErrorResponse(v)

\* The fields an action requires, in the order of its schema; for request and
\* revoke the result field selects the form of the response.
RequiredFields(action, v) ==
    IF action = "parameter" THEN << "result", "conf_params", "request_params", "version" >>
    ELSE IF Field(v, "result") = JStr(s_error) THEN << "result", "user_msg", "log_msg" >>
    ELSE IF action = "request" THEN << "result", "credential", "state" >>
    ELSE << "result" >>

MissingFields(action, v) ==
    { i \in 1..Len(RequiredFields(action, v)) : ~Has(v, RequiredFields(action, v)[i]) }

\* The plugin ran, what it printed decoded to an object, and the object was
\* checked against the scheme of the action.
CheckedResponse ==
    /\ plugin.ran /\ ~plugin.err /\ plugin.decodes
    /\ plugin.out.kind = "object"
    /\ pluginTestAction \in SupportedActions
    /\ validation.done

Range(s) == { s[i] : i \in 1..Len(s) }

-----------------------------------------------------------------------------
(* The claims. *)

UserInfoOf(doc) == Field(doc, "user_info")
DerivedUserId(doc) ==
    JStr(encodeUserID(Field(UserInfoOf(doc), "iss"), Field(UserInfoOf(doc), "sub")))

\* The override file holds a JSON object.
OverrideIsObject ==
    pluginInputOverride.file = "json" /\ IsObj(pluginInputOverride.doc)

OverrideGives(k) ==
    OverrideIsObject /\ k \in DOMAIN pluginInputOverride.doc.o

\* C1: whenever the plugin has been started, the watts_userid it was started
\* with is the identifier computed from the iss and sub of the user_info it was
\* started with, and it is not the watts_userid of the override document.
C1_UserIdDerivedFromUserInfo ==
    invocations > 0 =>
        /\ IsObj(UserInfoOf(sentInput))
        /\ Field(sentInput, "watts_userid") = DerivedUserId(sentInput)
        /\ OverrideGives("watts_userid") =>
              Field(sentInput, "watts_userid") # pluginInputOverride.doc.o["watts_userid"]

\* specifyPluginInput has just merged an override object over the default.
AfterMerge ==
    /\ generation = 2
    /\ steps = << "merge" >>
    /\ pc # "exited"
    /\ OverrideIsObject

\* specificJson was called with an override object, and what it returned was
\* printed (specific) or sent to the plugin (test).
AfterSpecificJson ==
    /\ generation = 1
    /\ command \in { "test", "specific" }
    /\ pc = "exited"
    /\ OverrideIsObject

SpecificJsonResult == IF command = "test" THEN sentInput ELSE stdout

\* merged has the keys of the two documents, each with the whole value of the
\* override when the override has the key and of the default otherwise.
OverrideWinsWhole(merged, ov, def) ==
    /\ DOMAIN merged = DOMAIN ov \cup DOMAIN def
    /\ \A k \in DOMAIN merged : merged[k] = IF k \in DOMAIN ov THEN ov[k] ELSE def[k]

\* C2: the merge of an override object over the compiled-in default gives a
\* document with exactly the keys of the two documents, in which each key has
\* the whole value of the override when the override has the key and the whole
\* value of the default otherwise; both in specifyPluginInput and in
\* specificJson.
C2_MergeOverrideWinsWhole ==
    /\ AfterMerge =>
          OverrideWinsWhole(defaultPluginInput, pluginInputOverride.doc.o, CompiledDefault)
    /\ AfterSpecificJson =>
          OverrideWinsWhole(SpecificJsonResult.o, pluginInputOverride.doc.o,
                            defaultJson(pluginTestAction).o)

\* C3: with an action that is none of parameter, request, revoke the plugin
\* is never started.
C3_NoInvocationForUnsupportedAction ==
    pluginTestAction \notin SupportedActions => invocations = 0

\* The run did what was asked of it: the test command reported result ok, the
\* other commands printed.
RunSucceeded ==
    IF command = "test"
    THEN validation.done /\ validation.ok
    ELSE steps # << >> /\ steps[Len(steps)] \in { "print", "version" }

\* C4: the process ends with exit code 0 only when the run succeeded; a plugin
\* whose output fails the schema, a plugin that fails to execute, an internal
\* error and a user input error all end it with a non-zero code.
C4_ExitCodeZeroOnlyOnSuccess ==
    pc = "exited" => (exitCode = 0 => RunSucceeded)

\* C5: a plugin that exits with zero and prints bytes that do not decode as
\* JSON is reported like an execution error, not as a validation error, and
\* no schema check is run on its output.
C5_DecodeFailureIsExecutionError ==
    (plugin.ran /\ ~plugin.err /\ ~plugin.decodes /\ "description" \in DOMAIN output) =>
        /\ output["description"].msg = "error executing the plugin"
        /\ "check" \notin Range(steps)

s_issuerName == << "i","s","s","u","e","r" >>
s_subjectName == << "s","u","b","j","e","c","t" >>

\* generateUserID has stamped the input.
IdentityStamped ==
    /\ "identity" \in Range(steps)
    /\ IsObj(defaultPluginInput["user_info"])

\* C6: the identifier is the base64url encoding of the slash-escaped compact
\* serialisation of an object with exactly the two fields issuer and subject,
\* which carry the values of iss and sub of user_info.
C6_ReducedObjectNamesIssuerSubject ==
    IdentityStamped =>
        defaultPluginInput["watts_userid"] =
            JStr(Base64UrlEncode(EscapeSlashes(
                MarshalPair(s_issuerName, Field(defaultPluginInput["user_info"], "iss"),
                            s_subjectName, Field(defaultPluginInput["user_info"], "sub")))))

ReportedOk == output["result"] = Printed(s_ok)
ReportedPath == output["description"].path
ValidationPassed == validation.ok
ValidationPath == validation.path

\* The keys a failure path names.
PathKeys(path) == { path[i + 1] : i \in { j \in 1..(Len(path) - 1) : path[j] = "Key" } }

MissingNames(action, v) ==
    { RequiredFields(action, v)[i] : i \in MissingFields(action, v) }

\* C7: for each supported action a response with every required field of the
\* required kind passes with an empty path, and a response that misses a
\* required field fails with a path that names exactly a field it misses.
C7_MissingFieldNamedForEveryAction ==
    CheckedResponse =>
        /\ Conforms(pluginTestAction, plugin.out) =>
              ValidationPassed /\ ValidationPath = << >>
        /\ MissingFields(pluginTestAction, plugin.out) # {} =>
              /\ ~ValidationPassed
              /\ \E f \in MissingNames(pluginTestAction, plugin.out) :
                    PathKeys(ValidationPath) = { f }

RequiredKeys ==
    { "watts_version", "action", "cred_state", "conf_params", "params",
      "user_info", "additional_logins", "watts_userid" }

\* C8: the document the default and the specific command print has the eight
\* required keys and a watts_userid derived from its user_info, and no plugin
\* was started.
C8_PrintedDocumentIsCanonical ==
    stdout # JNull =>
        /\ RequiredKeys \subseteq DOMAIN stdout.o
        /\ stdout.o["watts_userid"] = DerivedUserId(stdout)
        /\ invocations = 0

IsUserInfo(v) == StrFields(v, { "iss", "sub" })
IsOptionalStr(v) == v.kind = "null" \/ IsStr(v)
IsLogin(v) ==
    IsObj(v) /\ IsUserInfo(Field(v, "user_info")) /\ IsOptionalStr(Field(v, "access_token"))
IsParams(v) == IsObj(v) /\ \A k \in DOMAIN v.o : MatchLowerIdent(KeyChars[k])

\* The plugin-input schema, on the document.
WellFormedInput(doc) ==
    /\ StrFields(doc, { "watts_version", "watts_userid", "cred_state" })
    /\ IsOptionalStr(Field(doc, "access_token"))
    /\ IsArrayOf(Field(doc, "additional_logins"), IsLogin)
    /\ IsParams(Field(doc, "conf_params"))
    /\ IsParams(Field(doc, "params"))
    /\ IsUserInfo(Field(doc, "user_info"))

TestOrder == << "merge", "action", "identity", "validate", "invoke", "check", "report" >>
Position(step) == CHOOSE n \in 1..Len(TestOrder) : TestOrder[n] = step

\* C9: in the test command of the second generation the steps taken are in the order merge, action,
\* identity, validate, invoke, check, report; the plugin is started at most
\* once, only after the four steps before it and only with an input that
\* satisfies the plugin-input schema; an override file that cannot be read or
\* holds no JSON object, and an input that fails the schema, end the run with
\* a non-zero exit code and no invocation.
C9_InvokedOnceAfterValidInput ==
    (generation = 2 /\ command = "test") =>
        /\ invocations <= 1
        /\ Range(steps) \subseteq Range(TestOrder)
        /\ \A i, j \in 1..Len(steps) : i < j => Position(steps[i]) < Position(steps[j])
        /\ invocations = 1 =>
              /\ SubSeq(steps, 1, 5) = SubSeq(TestOrder, 1, 5)
              /\ WellFormedInput(sentInput)
        /\ (pluginInputOverride.file # "none" /\ ~OverrideIsObject) =>
              invocations = 0 /\ (pc = "exited" => exitCode # 0 /\ steps = << "merge" >>)
        /\ ("validate" \in Range(steps) /\ ~WellFormedInput(JObj(defaultPluginInput))) =>
              invocations = 0 /\ pc = "exited" /\ exitCode # 0

\* doPluginTest returned a report.
ReportReturned == plugin.ran /\ output # EmptyMap

\* C10: a report of doPluginTest has plugin_name, action, input, result and
\* description, and output and nothing else besides; result is ok or error, and
\* ok exactly when the plugin ran without an execution error and what it
\* printed decodes to a response that has what the action requires; output is
\* there exactly when the plugin ran without an execution error.
C10_ReportShape ==
    ReportReturned =>
        /\ { "plugin_name", "action", "input", "result", "description" } \subseteq DOMAIN output
        /\ DOMAIN output \subseteq
              { "plugin_name", "action", "input", "result", "description", "output" }
        /\ output["result"] \in { Printed(s_ok), Printed(s_error) }
        /\ output["action"] = Printed(ActionChars[pluginTestAction])
        /\ output["input"] = sentInput
        /\ ReportedOk <=>
              /\ ~plugin.err
              /\ plugin.decodes
              /\ pluginTestAction \in SupportedActions
              /\ Conforms(pluginTestAction, plugin.out)
        /\ "output" \in DOMAIN output <=> ~plugin.err

\* A report with result ok and an output, and a plugin that answered the
\* request action with a credential.
C10_Witness ==
    /\ ReportReturned
    /\ ReportedOk
    /\ pluginTestAction = "request"
    /\ "output" \in DOMAIN output
    /\ Has(plugin.out, "credential")
====
